---- MODULE Spec2Model ----
(***************************************************************************)
(* A model of cli/consumer_command.go: the `nats consumer` command.        *)
(*                                                                         *)
(* One behaviour is one invocation of the CLI: the flags are parsed one by *)
(* one (SetFlag), then the selected sub-command runs.  Durations are whole *)
(* seconds.  The remote manager and the NATS connection are collaborators: *)
(* their answers are inputs drawn by the actions.                          *)
(***************************************************************************)
EXTENDS Integers, Sequences, FiniteSets, TLC

VARIABLES
    cmd,        \* the sub-command selected on the command line
    pc,         \* position of the command's code
    c,          \* the consumerCmd struct (flag values)
    given,      \* the flags the user wrote on the command line
    nflags,     \* how many flag occurrences have been parsed
    live,       \* configuration of the consumer as the server holds it
    ncfg,       \* editAction: the candidate configuration
    answer,     \* editAction: what askConfirmation returned ("" = not asked)
    typed,      \* prepareConfig: the prompts issued and the answers typed
    submitted,  \* configurations handed to mgr.NewConsumerFromDefault
    written,    \* createAction: configurations written to --output
    result,     \* how the command ended ("" while running)
    i,          \* nextAction: loop counter
    nSubs,      \* reply subscriptions created so far
    nReqs,      \* next-message requests published so far
    nHandled,   \* push handler invocations so far
    msg,        \* the message being processed (NoMsg when none)
    sent,       \* messages published while processing msg
    shown,      \* what was displayed for msg
    path,       \* code paths reached while processing msg
    ctr,        \* leaderStandDown: poll counter
    ticks,      \* leaderStandDown: ticks the timer channel will still deliver
    leaderNow   \* leaderStandDown: leader in the last fetched state

flagVars == <<c, given, nflags>>
editVars == <<ncfg, answer, typed, submitted, written>>
msgVars  == <<msg, sent, shown, path>>
netVars  == <<i, nSubs, nReqs, nHandled>>
lsVars   == <<ctr, ticks, leaderNow>>
vars == <<cmd, pc, live, result, flagVars, editVars, msgVars, netVars, lsVars>>

-----------------------------------------------------------------------------
(* Bounds of the model *)

\* flag occurrences on one command line, and with them the answers the
\* user types at prompts instead of pressing Enter
MaxFlags == 3
\* messages the transport delivers to one push subscription
MaxMsgs == 2
\* backoffPolicy taken alone: the largest number of steps
MaxSteps == 3

-----------------------------------------------------------------------------
(* Values *)

Commands == {"edit", "add", "copy", "next", "sub", "stepdown"}

\* Subject names, in the order sort.Strings puts them.
Subjects == <<"a", "b">>

Rank(s) == CHOOSE k \in 1..Len(Subjects) : Subjects[k] = s

\* api.ConsumerConfig, the fields this command reads or writes.
PullDurable ==
    [ Durable |-> "C1", Description |-> "old", DeliverSubject |-> "",
      DeliverGroup |-> "", AckPolicy |-> "explicit", AckWait |-> 30,
      MaxDeliver |-> 3, MaxAckPending |-> 100, MaxWaiting |-> 512,
      SampleFrequency |-> "", MaxRequestBatch |-> 0, MaxRequestExpires |-> 0,
      MaxRequestMaxBytes |-> 0, BackOff |-> <<10, 20>>, HeadersOnly |-> FALSE,
      FilterSubject |-> "", FilterSubjects |-> <<"a", "b">>, Replicas |-> 3,
      Metadata |-> <<>>, DeliverPolicy |-> "all", ReplayPolicy |-> "instant",
      Heartbeat |-> 0, FlowControl |-> FALSE, RateLimit |-> 0 ]

PushDurable ==
    [ PullDurable EXCEPT !.Durable = "C2", !.DeliverSubject = "push.old",
      !.DeliverGroup = "grp", !.MaxWaiting = 0, !.BackOff = <<>>,
      !.FilterSubject = "a", !.FilterSubjects = <<>>, !.Replicas = 1,
      !.SampleFrequency = "25", !.HeadersOnly = TRUE,
      !.Heartbeat = 5, !.FlowControl = TRUE ]

PushEphemeral ==
    [ PushDurable EXCEPT !.Durable = "", !.AckPolicy = "none", !.DeliverGroup = "",
      !.MaxDeliver = -1, !.SampleFrequency = "" ]

LiveConfigs == {PullDurable, PushDurable, PushEphemeral}

\* The zero value of api.ConsumerConfig (var ncfg api.ConsumerConfig).
ZeroConfig ==
    [ Durable |-> "", Description |-> "", DeliverSubject |-> "",
      DeliverGroup |-> "", AckPolicy |-> "none", AckWait |-> 0,
      MaxDeliver |-> 0, MaxAckPending |-> 0, MaxWaiting |-> 0,
      SampleFrequency |-> "", MaxRequestBatch |-> 0, MaxRequestExpires |-> 0,
      MaxRequestMaxBytes |-> 0, BackOff |-> <<>>, HeadersOnly |-> FALSE,
      FilterSubject |-> "", FilterSubjects |-> <<>>, Replicas |-> 0,
      Metadata |-> <<>>, DeliverPolicy |-> "all", ReplayPolicy |-> "instant",
      Heartbeat |-> 0, FlowControl |-> FALSE, RateLimit |-> 0 ]

\* Contents of the files --config can name: a decoded configuration, or
\* "garbage" for a file json.Unmarshal rejects.
FileContent(name) ==
    CASE name = "reordered.json" -> [PullDurable EXCEPT !.FilterSubjects = <<"b", "a">>]
      [] name = "other.json"     -> [PullDurable EXCEPT !.AckWait = 45, !.Description = "file"]
      [] name = "push.json"      -> [PushEphemeral EXCEPT !.Description = "file"]
      [] OTHER                   -> "garbage"

NoMsg == [Data |-> "", Status |-> "", Stalled |-> "", Reply |-> "", none |-> TRUE]

\* A reply subject in the $JS.ACK form, which jsm.ParseJSMsgMetadata decodes.
AckReply == "$JS.ACK.S.C.1.2.3.4.5"

Msgs ==
    [ Data : {"", "x"}, Status : {"", "100", "503"}, Stalled : {"", "stall.subj"},
      Reply : {"", AckReply, "reply.raw"}, none : {FALSE} ]

-----------------------------------------------------------------------------
(* Flags: configureConsumerCommand *)

\* The consumerCmd struct after fisk applied the defaults of the flags of cmd.
cDefault(k) ==
    [ inputFile |-> "", force |-> FALSE, dryRun |-> FALSE,
      ack |-> TRUE, ackSetByUser |-> FALSE, term |-> FALSE, raw |-> FALSE,
      ackWait |-> IF k = "next" THEN 0 ELSE -1,
      delivery |-> "", filterSubjects |-> <<>>,
      maxAckPending |-> -1, maxDeliver |-> 0, maxWaiting |-> 0,
      deliveryGroup |-> IF k = "sub" THEN "" ELSE "_unset_",
      pullCount |-> 1, samplePct |-> -1, description |-> "",
      maxPullExpire |-> 0, maxPullBytes |-> 0, maxPullBatch |-> 0,
      backoffMode |-> "", backoffSteps |-> 10, backoffMin |-> 60, backoffMax |-> 1200,
      replicas |-> 0, hdrsOnly |-> FALSE, hdrsOnlySet |-> FALSE,
      metadataIsSet |-> FALSE, metadata |-> <<>>,
      consumer |-> "", destination |-> IF k = "copy" THEN "COPY" ELSE "",
      ephemeral |-> FALSE, pull |-> FALSE, acceptDefaults |-> FALSE,
      ackPolicy |-> "", startPolicy |-> "", replayPolicy |-> "",
      idleHeartbeat |-> "", fc |-> FALSE, fcSet |-> FALSE, bpsRateLimit |-> 0,
      validateOnly |-> FALSE, outFile |-> "" ]

\* The flag occurrences a command line of cmd may hold: <<field, value>>.
FlagValues(k) ==
    CASE k = "edit" ->
            {<<"inputFile", "reordered.json">>, <<"inputFile", "other.json">>,
             <<"inputFile", "bad.json">>,
             <<"force", TRUE>>, <<"dryRun", TRUE>>,
             <<"backoffMode", "linear">>, <<"backoffMode", "none">>,
             <<"backoffSteps", 0>>, <<"backoffSteps", 3>>,
             <<"backoffMin", 0>>, <<"backoffMax", 0>>,
             <<"description", "">>, <<"description", "new">>,
             <<"filterSubjects", "a">>, <<"filterSubjects", "b">>,
             <<"hdrsOnly", TRUE>>, <<"hdrsOnly", FALSE>>,
             <<"maxDeliver", 0>>, <<"maxDeliver", 5>>,
             <<"maxAckPending", -1>>, <<"maxAckPending", 7>>,
             <<"maxWaiting", 0>>, <<"maxWaiting", 9>>,
             <<"maxPullBatch", 4>>, <<"maxPullExpire", 8>>, <<"maxPullBytes", 6>>,
             <<"samplePct", 0>>, <<"samplePct", 50>>, <<"samplePct", 101>>,
             <<"delivery", "push.new">>,
             <<"ackWait", 30>>, <<"ackWait", 40>>,
             <<"replicas", 0>>, <<"replicas", 5>>,
             <<"metadata", <<"k", "v">> >>}
      [] k = "next" ->
            {<<"ack", TRUE>>, <<"ack", FALSE>>, <<"term", TRUE>>, <<"raw", TRUE>>,
             <<"ackWait", 2>>, <<"pullCount", 0>>, <<"pullCount", 2>>}
      [] k = "add" ->
            {<<"consumer", "NEW">>, <<"consumer", "bad.name">>,
             <<"inputFile", "other.json">>, <<"inputFile", "push.json">>,
             <<"inputFile", "bad.json">>,
             <<"acceptDefaults", TRUE>>, <<"pull", TRUE>>, <<"ephemeral", TRUE>>,
             <<"delivery", "push.new">>,
             <<"ackPolicy", "none">>, <<"ackPolicy", "explicit">>,
             <<"startPolicy", "subject">>, <<"deliveryGroup", "grp">>,
             <<"idleHeartbeat", "5s">>, <<"fc", TRUE>>,
             <<"maxDeliver", -1>>, <<"maxDeliver", 5>>,
             <<"maxWaiting", 9>>, <<"maxPullBatch", 4>>,
             <<"samplePct", 0>>, <<"samplePct", 50>>, <<"samplePct", 101>>,
             <<"samplePct", -5>>,
             <<"backoffMode", "linear">>, <<"backoffMode", "none">>,
             <<"backoffSteps", 0>>, <<"backoffSteps", 3>>,
             <<"filterSubjects", "a">>, <<"filterSubjects", "b">>,
             <<"bpsRateLimit", 100>>,
             <<"validateOnly", TRUE>>, <<"outFile", "out.json">>}
      [] k = "copy" ->
            {<<"pull", TRUE>>, <<"ephemeral", TRUE>>, <<"delivery", "push.new">>,
             <<"ackPolicy", "none">>, <<"ackPolicy", "explicit">>,
             <<"startPolicy", "subject">>, <<"deliveryGroup", "grp">>,
             <<"idleHeartbeat", "5s">>, <<"idleHeartbeat", "-1">>, <<"fc", TRUE>>,
             <<"maxDeliver", -1>>, <<"maxDeliver", 5>>,
             <<"maxWaiting", 9>>, <<"maxPullBatch", 4>>,
             <<"samplePct", 0>>, <<"samplePct", 50>>, <<"samplePct", 101>>,
             <<"samplePct", -5>>,
             <<"backoffMode", "linear">>, <<"backoffSteps", 0>>,
             <<"filterSubjects", "a">>, <<"filterSubjects", "b">>}
      [] k = "sub" ->
            {<<"ack", TRUE>>, <<"ack", FALSE>>, <<"raw", TRUE>>,
             <<"deliveryGroup", "grp">>}
      [] OTHER -> {}

\* fisk stores one flag occurrence: StringsVar appends, IsSetByUser records
\* that the flag was written.
applyFlag(k, cc, f, v) ==
    CASE f = "filterSubjects" ->
            [cc EXCEPT !.filterSubjects = Append(cc.filterSubjects, v)]
      [] f = "hdrsOnly" -> [cc EXCEPT !.hdrsOnly = v, !.hdrsOnlySet = TRUE]
      [] f = "metadata" -> [cc EXCEPT !.metadata = v, !.metadataIsSet = TRUE]
      [] f = "ack" -> [cc EXCEPT !.ack = v, !.ackSetByUser = (k = "next")]
      [] f = "fc" -> [cc EXCEPT !.fc = v, !.fcSet = TRUE]
      [] OTHER -> [cc EXCEPT ![f] = v]

SetFlag ==
    /\ pc = "parse"
    /\ nflags < MaxFlags
    /\ \E fv \in FlagValues(cmd) :
          /\ fv[1] = "filterSubjects" \/ fv[1] \notin given
          /\ c' = applyFlag(cmd, c, fv[1], fv[2])
          /\ given' = given \cup {fv[1]}
    /\ nflags' = nflags + 1
    /\ UNCHANGED <<cmd, pc, live, result, editVars, msgVars, netVars, lsVars>>

-----------------------------------------------------------------------------
(* editAction and its helpers *)

\* os.Exit through fisk.Fatalf / fisk.FatalIfError
Fatal(r) == pc' = "exit" /\ result' = r

\* jsm.LinearBackoffPeriods: steps periods evenly spaced from min to max.
LinearBackoffPeriods(steps, min, max) ==
    [k \in 1..steps |->
        IF steps = 1 THEN min ELSE min + ((k - 1) * (max - min)) \div (steps - 1)]

\* backoffPolicy with the switch on the mode ahead of the test of the
\* properties.
backoffPolicySwitchFirst(cc) ==
    IF cc.backoffMode = "none" THEN [err |-> "", v |-> <<>>]
    ELSE IF cc.backoffMode # "linear" THEN [err |-> "ErrBackoffMode", v |-> <<>>]
    ELSE IF cc.backoffSteps = 0 \/ cc.backoffMin = 0 \/ cc.backoffMax = 0
         THEN [err |-> "ErrPolicyProps", v |-> <<>>]
    ELSE [err |-> "",
          v |-> LinearBackoffPeriods(cc.backoffSteps, cc.backoffMin, cc.backoffMax)]

backoffPolicy(cc) ==
    IF cc.backoffMode = "none" THEN [err |-> "", v |-> <<>>]
    ELSE IF cc.backoffMode = "" \/ cc.backoffSteps = 0
            \/ cc.backoffMin = 0 \/ cc.backoffMax = 0
         THEN [err |-> "ErrPolicyProps", v |-> <<>>]
    ELSE IF cc.backoffMode = "linear"
         THEN [err |-> "",
               v |-> LinearBackoffPeriods(cc.backoffSteps, cc.backoffMin, cc.backoffMax)]
    ELSE [err |-> "ErrBackoffMode", v |-> <<>>]

\* fisk.Fatalf ends the process: fatal is TRUE and v is never used.
sampleFreqFromInt(cc, s) ==
    IF s > 100 \/ s < 0 THEN [fatal |-> TRUE, v |-> ""]
    ELSE IF s > 0 THEN [fatal |-> FALSE, v |-> ToString(cc.samplePct)]
    ELSE [fatal |-> FALSE, v |-> ""]

editDescription(cc, n) ==
    IF cc.description # "" THEN [n EXCEPT !.Description = cc.description] ELSE n

editMaxDeliverAlways(cc, n) == [n EXCEPT !.MaxDeliver = cc.maxDeliver]

editMaxDeliver(cc, n) ==
    IF cc.maxDeliver # 0 THEN [n EXCEPT !.MaxDeliver = cc.maxDeliver] ELSE n

editMaxAckPending(cc, n) ==
    IF cc.maxAckPending # -1 THEN [n EXCEPT !.MaxAckPending = cc.maxAckPending] ELSE n

editAckWait(cc, n) ==
    IF cc.ackWait # -1 THEN [n EXCEPT !.AckWait = cc.ackWait] ELSE n

editMaxWaiting(cc, n) ==
    IF cc.maxWaiting # 0 THEN [n EXCEPT !.MaxWaiting = cc.maxWaiting] ELSE n

editSample(cc, n) ==
    IF cc.samplePct # -1
    THEN [n EXCEPT !.SampleFrequency = sampleFreqFromInt(cc, cc.samplePct).v]
    ELSE n

editPullLimits(cc, n) ==
    [n EXCEPT
        !.MaxRequestBatch = IF cc.maxPullBatch > 0 THEN cc.maxPullBatch ELSE @,
        !.MaxRequestExpires = IF cc.maxPullExpire > 0 THEN cc.maxPullExpire ELSE @,
        !.MaxRequestMaxBytes = IF cc.maxPullBytes > 0 THEN cc.maxPullBytes ELSE @]

editBackOff(cc, n) ==
    IF cc.backoffMode # "" THEN [n EXCEPT !.BackOff = backoffPolicy(cc).v] ELSE n

editDelivery(cc, n) ==
    IF cc.delivery # "" THEN [n EXCEPT !.DeliverSubject = cc.delivery] ELSE n

editHeadersOnly(cc, n) ==
    IF cc.hdrsOnlySet THEN [n EXCEPT !.HeadersOnly = cc.hdrsOnly] ELSE n

\* c.filterSubjects[1] with one element is out of range: see editOverrides.
editFilter(cc, n) ==
    IF Len(cc.filterSubjects) = 1
    THEN [n EXCEPT !.FilterSubject = cc.filterSubjects[2]]
    ELSE IF Len(cc.filterSubjects) > 1
         THEN [n EXCEPT !.FilterSubjects = cc.filterSubjects]
    ELSE n

editReplicas(cc, n) ==
    IF cc.replicas > 0 THEN [n EXCEPT !.Replicas = cc.replicas] ELSE n

editMetadata(cc, n) ==
    IF cc.metadataIsSet THEN [n EXCEPT !.Metadata = cc.metadata] ELSE n

\* The else branch of editAction: the live configuration (copied through JSON)
\* with the flag overrides applied in source order.  err names the statement
\* that ended the edit first: the Fatalf of sampleFreqFromInt, the error of
\* backoffPolicy, or the run-time panic of the index expression
\* c.filterSubjects[1] on a slice of length one.
editOverrides(cc, t) ==
    LET err == IF cc.samplePct # -1 /\ sampleFreqFromInt(cc, cc.samplePct).fatal
                 THEN "FatalSample"
               ELSE IF cc.backoffMode # "" /\ backoffPolicy(cc).err # ""
                 THEN "ErrBackoff"
               ELSE IF Len(cc.filterSubjects) = 1
                 THEN "Panic"
               ELSE ""
    IN  IF err # "" THEN [err |-> err, cfg |-> t]
        ELSE [err |-> "",
              cfg |-> editMetadata(cc, editReplicas(cc, editFilter(cc,
                      editHeadersOnly(cc, editDelivery(cc, editBackOff(cc,
                      editPullLimits(cc, editSample(cc, editMaxWaiting(cc,
                      editAckWait(cc, editMaxAckPending(cc, editMaxDeliver(cc,
                      editDescription(cc, t)))))))))))))]

\* The candidate: the decoded --config file, or the overridden live copy.
editCandidate(cc, t) ==
    IF cc.inputFile # ""
    THEN IF cc.inputFile \in {"reordered.json", "other.json"}
         THEN [err |-> "", cfg |-> FileContent(cc.inputFile)]
         ELSE [err |-> "ErrFile", cfg |-> t]
    ELSE editOverrides(cc, t)

editBackoffCheckInverted(n, t) == Len(n.BackOff) > 0 /\ n.AckWait = t.AckWait

\* len(ncfg.BackOff) > 0 && ncfg.AckWait != t.AckWait
editBackoffCheck(n, t) == Len(n.BackOff) > 0 /\ n.AckWait # t.AckWait

RECURSIVE insertSorted(_, _)
insertSorted(x, s) ==
    IF s = <<>> THEN <<x>>
    ELSE IF Rank(x) <= Rank(Head(s)) THEN <<x>> \o s
    ELSE <<Head(s)>> \o insertSorted(x, Tail(s))

RECURSIVE sortStrings(_)
sortStrings(s) == IF s = <<>> THEN <<>> ELSE insertSorted(Head(s), sortStrings(Tail(s)))

sorterUnsorted(in) == in

\* The cmp.Transformer "Sort": a sorted copy of a []string.
sorter(in) == sortStrings(in)

\* cmp.Diff(old, new, sorter): the fields whose values differ, []string fields
\* (FilterSubjects) compared after the transformer.
Diff(old, new) ==
    {f \in DOMAIN old :
        IF f = "FilterSubjects" THEN sorter(old[f]) # sorter(new[f])
        ELSE old[f] # new[f]}

editDecisionNoDryRun(diff, cc, ans) ==
    IF diff = {} THEN "NoDifference"
    ELSE IF ~cc.force /\ ans = "err" THEN "FatalConfirm"
    ELSE IF ~cc.force /\ ans = "no" THEN "Declined"
    ELSE "submit"

\* What editAction does with the diff: report no change, leave under
\* --dry-run, ask unless --force, or go on to submit.
editDecision(diff, cc, ans) ==
    IF diff = {} THEN "NoDifference"
    ELSE IF cc.dryRun THEN "ExitDryRun"
    ELSE IF ~cc.force /\ ans = "err" THEN "FatalConfirm"
    ELSE IF ~cc.force /\ ans = "no" THEN "Declined"
    ELSE "submit"

\* editAction for the confirmation answer ans and the manager's verdict
\* remoteOk on the submitted configuration.
editRun(cc, t, ans, remoteOk) ==
    LET cand == editCandidate(cc, t)
        n    == cand.cfg
        dec  == editDecision(Diff(t, n), cc, ans)
        stop(r) == [result |-> r, ncfg |-> ZeroConfig, answer |-> "", submitted |-> <<>>]
    IN  IF t.Durable = "" THEN stop("ErrNotDurable")
        ELSE IF cand.err # "" THEN stop(cand.err)
        ELSE IF editBackoffCheck(n, t)
             THEN [stop("ErrIncompatibleEdit") EXCEPT !.ncfg = n]
        ELSE IF dec \in {"NoDifference", "ExitDryRun"}
             THEN [stop(dec) EXCEPT !.ncfg = n]
        ELSE IF dec \in {"FatalConfirm", "Declined"}
             THEN [stop(dec) EXCEPT !.ncfg = n, !.answer = ans]
        ELSE [result |-> IF remoteOk THEN "ok" ELSE "ErrRemote",
              ncfg |-> n,
              answer |-> IF cc.force THEN "" ELSE ans,
              submitted |-> <<n>>]

editAction ==
    /\ cmd = "edit"
    /\ pc = "parse"
    /\ \E ans \in {"yes", "no", "err"}, remoteOk \in BOOLEAN :
          LET r == editRun(c, live, ans, remoteOk)
          IN  /\ ncfg' = r.ncfg
              /\ answer' = r.answer
              /\ submitted' = r.submitted
              /\ typed' = typed
              /\ written' = written
              /\ result' = r.result
    /\ pc' = "done"
    /\ UNCHANGED <<cmd, live, flagVars, msgVars, netVars, lsVars>>

-----------------------------------------------------------------------------
(* prepareConfig, createAction *)

\* The characters of the consumer names of the model.
NameChars(n) ==
    CASE n = "NEW"      -> <<"N", "E", "W">>
      [] n = "COPY"     -> <<"C", "O", "P", "Y">>
      [] n = "C1"       -> <<"C", "1">>
      [] n = "C2"       -> <<"C", "2">>
      [] n = "bad.name" -> <<"b", "a", "d", ".", "n", "a", "m", "e">>
      [] OTHER          -> <<>>

\* regexp.MatchString(`\.|\*|>`, name)
MatchReserved(n) == \E k \in DOMAIN NameChars(n) : NameChars(n)[k] \in {".", "*", ">"}

\* parseDurationString on the duration strings of the model, in seconds.
parseDurationString(d) ==
    CASE d = "0s" -> [err |-> FALSE, v |-> 0]
      [] d = "5s" -> [err |-> FALSE, v |-> 5]
      [] d = "1h" -> [err |-> FALSE, v |-> 3600]
      [] OTHER    -> [err |-> TRUE, v |-> 0]

\* c.loadConfigFile: the decoded file, or the error of ReadFile / Unmarshal.
\* The fields of api.ConsumerConfig whose JSON tag has omitempty: all but
\* ack_policy, deliver_policy and replay_policy.
OmitEmpty == DOMAIN ZeroConfig \ {"AckPolicy", "DeliverPolicy", "ReplayPolicy"}

\* json.Marshal of a configuration: an object with one key per field, the
\* omitempty fields left out when they hold their zero value.
MarshalConfig(cfg) ==
    [f \in {g \in DOMAIN cfg : g \notin OmitEmpty \/ cfg[g] # ZeroConfig[g]} |-> cfg[f]]

\* json.Unmarshal into a zero api.ConsumerConfig: the keys that name a field
\* are stored, the other keys are ignored, fields without a key stay zero.
UnmarshalConfig(obj) ==
    [f \in DOMAIN ZeroConfig |-> IF f \in DOMAIN obj THEN obj[f] ELSE ZeroConfig[f]]

\* The two shapes of a configuration file: the bare configuration, and the
\* output of `nats c info --json`, which holds it under the key "config".
BareFile(cfg) == [valid |-> TRUE, obj |-> MarshalConfig(cfg)]

InfoFile(cfg) ==
    [valid |-> TRUE,
     obj |-> [stream_name |-> "S", name |-> cfg.Durable, config |-> MarshalConfig(cfg)]]

\* os.ReadFile: the bytes of the files --config can name; a file that is
\* missing or is not JSON has valid = FALSE.
ReadFile(file) ==
    CASE file \in {"reordered.json", "other.json"} -> BareFile(FileContent(file))
      [] file = "push.json" -> InfoFile(FileContent(file))
      [] OTHER -> [valid |-> FALSE, obj |-> <<>>]

decodeConfigFileBareOnly(f) ==
    IF ~f.valid THEN [err |-> "ErrFile", cfg |-> ZeroConfig]
    ELSE [err |-> "", cfg |-> UnmarshalConfig(f.obj)]

\* Lines 954-976: probe for the key "config" and decode what is under it as
\* the Config of a ConsumerInfo, else decode the whole object.
decodeConfigFile(f) ==
    IF ~f.valid THEN [err |-> "ErrFile", cfg |-> ZeroConfig]
    ELSE IF "config" \in DOMAIN f.obj
         THEN [err |-> "", cfg |-> UnmarshalConfig(f.obj["config"])]
         ELSE [err |-> "", cfg |-> UnmarshalConfig(f.obj)]

loadConfigFile(file) == decodeConfigFile(ReadFile(file))

\* ackPolicyFromString / replayPolicyFromString: "" for the Fatalf.
ackPolicyFromString(p) == IF p \in {"none", "all", "explicit"} THEN p ELSE ""

replayPolicyFromString(p) == IF p \in {"instant", "original"} THEN p ELSE ""

defaultConsumer == [ZeroConfig EXCEPT !.AckPolicy = "explicit", !.ReplayPolicy = "instant"]

\* setStartPolicy: the deliver policy, or "" when the duration does not parse.
setStartPolicy(cfg, policy) ==
    IF policy = "" THEN cfg
    ELSE IF policy = "all" THEN [cfg EXCEPT !.DeliverPolicy = "all"]
    ELSE IF policy = "last" THEN [cfg EXCEPT !.DeliverPolicy = "last"]
    ELSE IF policy \in {"new", "next"} THEN [cfg EXCEPT !.DeliverPolicy = "new"]
    ELSE IF policy \in {"subject", "last_per_subject"}
         THEN [cfg EXCEPT !.DeliverPolicy = "last_per_subject"]
    ELSE IF policy = "42" THEN [cfg EXCEPT !.DeliverPolicy = "by_start_sequence"]
    ELSE IF parseDurationString(policy).err THEN [cfg EXCEPT !.DeliverPolicy = ""]
    ELSE [cfg EXCEPT !.DeliverPolicy = "by_start_time"]

\* What the user types when a prompt is left at its default: Enter, except
\* the consumer name, which survey.Required makes the user type.  ack = ""
\* stands for Enter on the Select, which returns its Default.
StdinDefault ==
    [ name |-> "NEW", target |-> "", group |-> "", start |-> "all", ack |-> "",
      replay |-> "instant", filter |-> "", maxDeliver |-> -1, maxAckPending |-> 0,
      heartbeat |-> "0s", fc |-> FALSE, hdrsOnly |-> FALSE,
      backoff |-> "no", backoffSteps |-> 20 ]

\* Other answers: <<prompt, answer>>
AnswerValues ==
    { <<"name", "bad.name">>, <<"target", "push.t">>, <<"group", "g">>,
      <<"start", "subject">>, <<"ack", "none">>, <<"ack", "all">>,
      <<"replay", "original">>, <<"filter", "a">>, <<"maxDeliver", 5>>,
      <<"maxAckPending", 7>>, <<"heartbeat", "5s">>, <<"heartbeat", "zz">>,
      <<"fc", TRUE>>, <<"hdrsOnly", TRUE>>, <<"backoff", "none">>,
      <<"backoff", "linear">>, <<"backoffSteps", 0>>, <<"backoffSteps", 2>> }

\* The answers a user may give who types at most k of them and presses
\* Enter on the other prompts.
RECURSIVE Stdin(_)
Stdin(k) ==
    IF k <= 0 THEN {StdinDefault}
    ELSE Stdin(k - 1) \cup
         {[ty EXCEPT ![a[1]] = a[2]] : ty \in Stdin(k - 1), a \in AnswerValues}

\* askOne: records that the prompt was issued.
askOne(st, prompt) == [st EXCEPT !.asked = @ \cup {prompt}]

\* os.Exit, or the error prepareConfig returns: the steps after it find
\* st.err set and do nothing.
Stop(st, e) == [st EXCEPT !.err = e]

pcFileAlwaysMerges(cc, f) ==
    LET n == IF cc.consumer # "" THEN [f.cfg EXCEPT !.Durable = cc.consumer] ELSE f.cfg
        d == IF cc.delivery # "" THEN [n EXCEPT !.DeliverSubject = cc.delivery] ELSE n
    IN  [c |-> cc, cfg |-> d, asked |-> {}, err |-> f.err]

\* Lines 985-1001, f the answer of loadConfigFile: with --config the file is
\* the configuration; only the durable name and the delivery target of the
\* command line are merged in.
pcFileFrom(cc, f) ==
    LET n == IF f.cfg.Durable # "" /\ cc.consumer # "" /\ f.cfg.Durable # cc.consumer
             THEN [f.cfg EXCEPT !.Durable = cc.consumer] ELSE f.cfg
        d == IF n.DeliverSubject # "" /\ cc.delivery # ""
             THEN [n EXCEPT !.DeliverSubject = cc.delivery] ELSE n
    IN  [c |-> cc, cfg |-> d, asked |-> {}, err |-> f.err]

pcFile(cc) == pcFileFrom(cc, loadConfigFile(cc.inputFile))

\* Lines 1004-1015
pcName(st, ty) ==
    LET s1 == IF st.c.consumer = "" /\ ~st.c.ephemeral
              THEN askOne([st EXCEPT !.c.consumer = ty.name], "name") ELSE st
        s2 == [s1 EXCEPT !.cfg.Durable = s1.c.consumer]
    IN  IF MatchReserved(s2.cfg.Durable) THEN Stop(s2, "FatalName") ELSE s2

\* Lines 1017-1025
pcTarget(st, ty) ==
    IF st.err # "" THEN st ELSE
    LET s1 == IF ~st.c.pull /\ st.c.delivery = ""
              THEN askOne([st EXCEPT !.c.delivery = ty.target], "target") ELSE st
    IN  [s1 EXCEPT !.cfg.DeliverSubject = s1.c.delivery]

\* Lines 1034-1039
defaultAckPolicy(cc) ==
    IF cc.ackPolicy # "" THEN cc.ackPolicy
    ELSE IF cc.pull \/ cc.delivery = "" THEN "explicit" ELSE "none"

\* Lines 1027-1058: --defaults fills what the prompts would ask for.
pcDefaults(st) ==
    IF st.err # "" THEN st ELSE
    IF ~st.c.acceptDefaults THEN st
    ELSE LET cc == st.c
             push == st.cfg.DeliverSubject # ""
         IN  [st EXCEPT !.c =
                [cc EXCEPT
                   !.deliveryGroup = IF @ = "_unset_" THEN "" ELSE @,
                   !.startPolicy = IF @ = "" THEN "all" ELSE @,
                   !.ackPolicy = defaultAckPolicy(cc),
                   !.maxDeliver = IF @ = 0 THEN -1 ELSE @,
                   !.maxAckPending = IF @ = -1 THEN 0 ELSE @,
                   !.replayPolicy = IF push \/ @ = "" THEN "instant" ELSE @,
                   !.idleHeartbeat = IF @ = "" THEN "-1" ELSE @,
                   !.hdrsOnlySet = TRUE,
                   !.fcSet = IF push THEN TRUE ELSE @]]

\* Lines 1060-1070
pcGroup(st, ty) ==
    IF st.err # "" THEN st ELSE
    LET s1 == IF st.cfg.DeliverSubject # "" /\ st.c.deliveryGroup = "_unset_"
              THEN askOne([st EXCEPT !.c.deliveryGroup = ty.group], "group") ELSE st
    IN  [s1 EXCEPT !.cfg.DeliverGroup =
            IF s1.c.deliveryGroup = "_unset_" THEN "" ELSE s1.c.deliveryGroup]

\* Lines 1072-1081
pcStart(st, ty) ==
    IF st.err # "" THEN st ELSE
    LET s1 == IF st.c.startPolicy = ""
              THEN askOne([st EXCEPT !.c.startPolicy = ty.start], "start") ELSE st
        s2 == [s1 EXCEPT !.cfg = setStartPolicy(@, s1.c.startPolicy)]
    IN  IF s2.cfg.DeliverPolicy = "" THEN Stop(s2, "FatalStartPolicy") ELSE s2

\* The Default of the "Acknowledgment policy" Select (lines 1085-1088)
ackPromptDefault(cc) == IF cc.delivery = "" THEN "explicit" ELSE "none"

\* Lines 1083-1117
pcAck(st, ty) ==
    IF st.err # "" THEN st ELSE
    LET s1 == IF st.c.ackPolicy = ""
              THEN askOne([st EXCEPT !.c.ackPolicy =
                              IF ty.ack = "" THEN ackPromptDefault(st.c) ELSE ty.ack],
                          "ack")
              ELSE st
        s2 == IF s1.c.replayPolicy = ""
              THEN askOne([s1 EXCEPT !.c.replayPolicy = ty.replay], "replay") ELSE s1
        ap == ackPolicyFromString(s2.c.ackPolicy)
    IN  IF ap = "" THEN Stop(s2, "FatalAckPolicy")
        ELSE IF ap = "none" /\ s2.cfg.DeliverSubject = ""
             THEN Stop([s2 EXCEPT !.cfg.AckPolicy = ap], "FatalPullAckNone")
        ELSE IF ap = "none"
             THEN [s2 EXCEPT !.cfg.AckPolicy = ap, !.cfg.MaxDeliver = -1]
        ELSE [s2 EXCEPT !.cfg.AckPolicy = ap]

\* Lines 1119-1129
pcWaitSample(st) ==
    IF st.err # "" THEN st ELSE
    LET s1 == IF st.c.ackWait > 0 THEN [st EXCEPT !.cfg.AckWait = st.c.ackWait] ELSE st
    IN  IF st.c.samplePct > 0
        THEN IF st.c.samplePct > 100 THEN Stop(s1, "FatalSample")
             ELSE [s1 EXCEPT !.cfg.SampleFrequency = ToString(st.c.samplePct)]
        ELSE s1

\* Lines 1131-1147
pcReplay(st, ty) ==
    IF st.err # "" THEN st ELSE
    LET s1 == IF st.cfg.DeliverSubject # "" /\ st.c.replayPolicy = ""
              THEN askOne([st EXCEPT !.c.replayPolicy = ty.replay], "replay") ELSE st
    IN  IF s1.c.replayPolicy = "" THEN s1
        ELSE IF replayPolicyFromString(s1.c.replayPolicy) = ""
             THEN Stop(s1, "FatalReplayPolicy")
        ELSE [s1 EXCEPT !.cfg.ReplayPolicy = replayPolicyFromString(s1.c.replayPolicy)]

\* Lines 1149-1170
pcFilter(st, ty) ==
    IF st.err # "" THEN st ELSE
    LET s1 == IF Len(st.c.filterSubjects) = 0 /\ ~st.c.acceptDefaults
              THEN askOne([st EXCEPT !.c.filterSubjects = <<ty.filter>>], "filter")
              ELSE st
        fs == s1.c.filterSubjects
        s2 == IF Len(fs) = 1 THEN [s1 EXCEPT !.cfg.FilterSubject = fs[1]]
              ELSE IF Len(fs) > 1 THEN [s1 EXCEPT !.cfg.FilterSubjects = fs]
              ELSE s1
    IN  IF s2.cfg.FilterSubject = "" /\ Len(fs) = 0
           /\ s2.cfg.DeliverPolicy = "last_per_subject"
        THEN [s2 EXCEPT !.cfg.FilterSubject = ">"] ELSE s2

\* Lines 1172-1188
pcMaxDeliver(st, ty) ==
    IF st.err # "" THEN st ELSE
    LET ackd == st.cfg.AckPolicy # "none"
        s1 == IF st.c.maxDeliver = 0 /\ ackd
              THEN askOne([st EXCEPT !.c.maxDeliver = ty.maxDeliver], "maxDeliver")
              ELSE st
    IN  IF s1.c.maxAckPending = -1 /\ ackd
        THEN askOne([s1 EXCEPT !.c.maxAckPending = ty.maxAckPending], "maxAckPending")
        ELSE s1

\* Lines 1190-1207
pcHeartbeat(st, ty) ==
    IF st.err # "" THEN st ELSE
    IF st.cfg.DeliverSubject = "" THEN st
    ELSE IF st.c.idleHeartbeat = "-1" THEN [st EXCEPT !.cfg.Heartbeat = 0]
    ELSE LET asks == st.c.idleHeartbeat = ""
             d == parseDurationString(IF asks THEN ty.heartbeat ELSE st.c.idleHeartbeat)
             s1 == IF asks THEN askOne(st, "heartbeat") ELSE st
         IN  IF d.err THEN Stop(s1, "FatalHeartbeat")
             ELSE [s1 EXCEPT !.cfg.Heartbeat = d.v]

\* Lines 1209-1222
pcFlowControl(st, ty) ==
    IF st.err # "" THEN st ELSE
    LET s1 == IF st.cfg.DeliverSubject # "" /\ ~st.c.fcSet
              THEN askOne([st EXCEPT !.c.fc = ty.fc], "fc") ELSE st
        s2 == IF s1.cfg.DeliverSubject # ""
              THEN [s1 EXCEPT !.cfg.FlowControl = s1.c.fc] ELSE s1
        s3 == IF ~s2.c.hdrsOnlySet
              THEN askOne([s2 EXCEPT !.c.hdrsOnly = ty.hdrsOnly], "hdrsOnly") ELSE s2
    IN  [s3 EXCEPT !.cfg.HeadersOnly = s3.c.hdrsOnly]

\* askBackoffPolicy: the confirmation, the mode, and for linear the minimum
\* ("1m") and maximum ("10m"), left at their defaults, and the steps.
askBackoffPolicy(st, ty) ==
    LET s1 == askOne(st, "backoff")
    IN  IF ty.backoff = "no" THEN s1
        ELSE IF ty.backoff = "none"
             THEN askOne([s1 EXCEPT !.c.backoffMode = "none"], "backoffMode")
        ELSE LET s2 == [s1 EXCEPT !.c.backoffMode = ty.backoff,
                                  !.c.backoffMin = 60, !.c.backoffMax = 600,
                                  !.asked = @ \cup {"backoffMode", "backoffMin",
                                                    "backoffMax", "backoffSteps"}]
             IN  IF ty.backoffSteps < 1 THEN Stop(s2, "ErrBackoffSteps")
                 ELSE [s2 EXCEPT !.c.backoffSteps = ty.backoffSteps]

\* The rule of line 1238 with the length of the schedule itself.
maxDeliverForBackoffLen(cc, b) ==
    IF cc.maxDeliver = -1 /\ Len(b) > 0 THEN Len(b) ELSE cc.maxDeliver

\* Lines 1237-1240: c.maxDeliver after a schedule b was generated.
maxDeliverForBackoff(cc, b) ==
    IF cc.maxDeliver = -1 /\ Len(b) > 0 THEN Len(b) + 1 ELSE cc.maxDeliver

\* Lines 1224-1241
pcBackoff(st, ty) ==
    IF st.err # "" THEN st ELSE
    LET s1 == IF ~st.c.acceptDefaults /\ st.c.backoffMode = ""
              THEN askBackoffPolicy(st, ty) ELSE st
        b == backoffPolicy(s1.c)
    IN  IF s1.err # "" \/ s1.c.backoffMode = "" THEN s1
        ELSE IF b.err # "" THEN Stop(s1, "ErrBackoff")
        ELSE [s1 EXCEPT !.cfg.BackOff = b.v,
                        !.c.maxDeliver = maxDeliverForBackoff(s1.c, b.v)]

\* Lines 1243-1282
pcLimits(st) ==
    IF st.err # "" THEN st ELSE
    LET cc == [st.c EXCEPT !.maxAckPending = IF @ = -1 THEN 0 ELSE @]
        pull == st.cfg.DeliverSubject = ""
        n == [st.cfg EXCEPT
                !.MaxAckPending = cc.maxAckPending,
                !.MaxRequestBatch = IF cc.maxPullBatch > 0 THEN cc.maxPullBatch ELSE @,
                !.MaxRequestExpires = IF cc.maxPullExpire > 0 THEN cc.maxPullExpire ELSE @,
                !.MaxRequestMaxBytes = IF cc.maxPullBytes > 0 THEN cc.maxPullBytes ELSE @,
                !.MaxWaiting = IF pull THEN cc.maxWaiting ELSE @,
                !.MaxDeliver = IF cc.maxDeliver # 0 /\ st.cfg.AckPolicy # "none"
                               THEN cc.maxDeliver ELSE @]
        s1 == [st EXCEPT !.c = cc, !.cfg = n]
    IN  IF cc.bpsRateLimit > 0 /\ pull THEN Stop(s1, "ErrRateLimit")
        ELSE [s1 EXCEPT !.cfg.RateLimit = cc.bpsRateLimit,
                        !.cfg.Replicas = cc.replicas,
                        !.cfg.Metadata = IF cc.metadataIsSet THEN cc.metadata ELSE @]

\* prepareConfig: the struct and configuration it leaves, the prompts it
\* issued, and "" or the error it ended with.
prepareConfig(cc, ty) ==
    IF cc.inputFile # "" THEN pcFile(cc)
    ELSE pcLimits(pcBackoff(pcFlowControl(pcHeartbeat(pcMaxDeliver(pcFilter(
         pcReplay(pcWaitSample(pcAck(pcStart(pcGroup(pcDefaults(pcTarget(
         pcName([c |-> cc, asked |-> {}, err |-> "",
                 cfg |-> [defaultConsumer EXCEPT !.Description = cc.description]],
                ty),
         ty)), ty), ty), ty)), ty), ty), ty), ty), ty), ty))

\* The failures that end the process (fisk.Fatalf, fisk.FatalIfError); the
\* others are errors the action returns.
FatalErrors ==
    {"FatalName", "FatalStartPolicy", "FatalAckPolicy", "FatalPullAckNone",
     "FatalSample", "FatalReplayPolicy", "FatalHeartbeat"}

\* createAction after prepareConfig returned st: env is "invalid" when
\* cfg.Validate rejects the configuration, "fail" when WriteFile or the server
\* fails, and "ok" otherwise.
createRun(st, env) ==
    LET none == [pc |-> "done", result |-> "", submitted |-> <<>>, written |-> <<>>,
                 consumer |-> st.c.consumer]
    IN  IF st.err \in FatalErrors THEN [none EXCEPT !.pc = "exit", !.result = st.err]
        ELSE IF st.err # "" THEN [none EXCEPT !.result = st.err]
        ELSE IF st.c.validateOnly \/ st.c.outFile # ""
             THEN IF env = "invalid" THEN [none EXCEPT !.pc = "exit", !.result = "FatalValidation"]
                  ELSE IF st.c.validateOnly THEN [none EXCEPT !.result = "Valid"]
                  ELSE IF env = "ok" THEN [none EXCEPT !.result = "Written", !.written = <<st.cfg>>]
                  ELSE [none EXCEPT !.result = "ErrWriteFile"]
        ELSE IF env # "fail" THEN [none EXCEPT !.result = "ok", !.submitted = <<st.cfg>>,
                                     !.consumer = st.cfg.Durable]
        ELSE [none EXCEPT !.pc = "exit", !.result = "FatalCreate",
                          !.submitted = <<st.cfg>>]

createAction ==
    /\ cmd = "add"
    /\ pc = "parse"
    /\ \E ty \in Stdin(MaxFlags - nflags), env \in {"ok", "invalid", "fail"} :
          LET st == prepareConfig(c, ty)
              r == createRun(st, env)
          IN  /\ c' = [st.c EXCEPT !.consumer = r.consumer]
              /\ ncfg' = st.cfg
              /\ typed' = [q \in st.asked |->
                             IF q \in DOMAIN ty THEN ty[q]
                             ELSE IF q = "backoffMode" THEN ty.backoff ELSE "default"]
              /\ submitted' = r.submitted
              /\ written' = r.written
              /\ result' = r.result
              /\ pc' = r.pc
    /\ UNCHANGED <<cmd, live, given, nflags, answer, msgVars, netVars, lsVars>>

-----------------------------------------------------------------------------
(* cpAction *)

\* Lines 817-839: ack wait, sampling, start policy, name, delivery mode
cpMode(cc, src) ==
    LET sf == sampleFreqFromInt(cc, cc.samplePct)
        n1 == [src EXCEPT !.AckWait = IF cc.ackWait > 0 THEN cc.ackWait ELSE @,
                          !.SampleFrequency = IF cc.samplePct # -1 THEN sf.v ELSE @]
        n2 == [setStartPolicy(n1, cc.startPolicy) EXCEPT
                 !.Durable = IF cc.ephemeral THEN "" ELSE cc.destination,
                 !.DeliverSubject = IF cc.pull THEN ""
                                    ELSE IF cc.delivery # "" THEN cc.delivery ELSE @,
                 !.MaxWaiting = IF cc.pull THEN cc.maxWaiting ELSE @]
    IN  IF cc.samplePct # -1 /\ sf.fatal THEN [err |-> "FatalSample", cfg |-> n1]
        ELSE IF n2.DeliverPolicy = "" THEN [err |-> "FatalStartPolicy", cfg |-> n2]
        ELSE [err |-> "", cfg |-> n2]

\* Lines 841-869: ack policy, filters, replay, max deliver, rate, pending
cpPolicies(cc, n) ==
    LET fs == cc.filterSubjects
        n1 == [n EXCEPT
                 !.AckPolicy = IF cc.ackPolicy # "" THEN ackPolicyFromString(cc.ackPolicy) ELSE @,
                 !.FilterSubject = IF Len(fs) = 1 THEN fs[1] ELSE @,
                 !.FilterSubjects = IF Len(fs) > 1 THEN fs ELSE @,
                 !.ReplayPolicy = IF cc.replayPolicy # ""
                                  THEN replayPolicyFromString(cc.replayPolicy) ELSE @,
                 !.MaxDeliver = IF cc.maxDeliver # 0 THEN cc.maxDeliver ELSE @,
                 !.RateLimit = IF cc.bpsRateLimit # 0 THEN cc.bpsRateLimit ELSE @,
                 !.MaxAckPending = IF cc.maxAckPending # -1 THEN cc.maxAckPending ELSE @]
    IN  IF n1.AckPolicy = "" THEN [err |-> "FatalAckPolicy", cfg |-> n]
        ELSE IF n1.ReplayPolicy = "" THEN [err |-> "FatalReplayPolicy", cfg |-> n]
        ELSE [err |-> "", cfg |-> n1]

cpPushInheritsGroup(cc, n) ==
    LET hbSet == cc.idleHeartbeat # "" /\ cc.idleHeartbeat # "-"
        hb == parseDurationString(cc.idleHeartbeat)
        pull == n.DeliverSubject = ""
        n1 == [n EXCEPT
                 !.Heartbeat = IF pull THEN 0 ELSE IF hbSet THEN hb.v ELSE @,
                 !.Description = IF cc.description # "" THEN cc.description ELSE @,
                 !.FlowControl = IF pull THEN FALSE ELSE IF cc.fcSet THEN cc.fc ELSE @,
                 !.DeliverGroup = IF cc.deliveryGroup = "_unset_" THEN @
                                  ELSE IF cc.delivery = "" THEN "" ELSE cc.deliveryGroup]
    IN  IF hbSet /\ hb.err THEN [err |-> "FatalHeartbeat", cfg |-> n]
        ELSE [err |-> "", cfg |-> n1]

\* Lines 871-899: heartbeat, description, flow control, delivery group
cpPush(cc, n) ==
    LET hbSet == cc.idleHeartbeat # "" /\ cc.idleHeartbeat # "-"
        hb == parseDurationString(cc.idleHeartbeat)
        pull == n.DeliverSubject = ""
        n1 == [n EXCEPT
                 !.Heartbeat = IF pull THEN 0 ELSE IF hbSet THEN hb.v ELSE @,
                 !.Description = IF cc.description # "" THEN cc.description ELSE @,
                 !.FlowControl = IF pull THEN FALSE ELSE IF cc.fcSet THEN cc.fc ELSE @,
                 !.DeliverGroup = IF cc.delivery = "" \/ cc.deliveryGroup = "_unset_"
                                  THEN "" ELSE cc.deliveryGroup]
    IN  IF hbSet /\ hb.err THEN [err |-> "FatalHeartbeat", cfg |-> n]
        ELSE [err |-> "", cfg |-> n1]

\* Lines 905-925: pull limits, backoff, headers only
cpLimits(cc, n) ==
    LET b == backoffPolicy(cc)
        n1 == [n EXCEPT
                 !.MaxRequestExpires = IF cc.maxPullExpire > 0 THEN cc.maxPullExpire ELSE @,
                 !.MaxRequestBatch = IF cc.maxPullBatch > 0 THEN cc.maxPullBatch ELSE @,
                 !.MaxRequestMaxBytes = IF cc.maxPullBytes > 0 THEN cc.maxPullBytes ELSE @]
    IN  IF cc.backoffMode # "" /\ b.err # "" THEN [err |-> "ErrBackoff", cfg |-> n1]
        ELSE [err |-> "",
              cfg |-> [n1 EXCEPT !.BackOff = IF cc.backoffMode # "" THEN b.v ELSE @,
                                 !.HeadersOnly = IF cc.hdrsOnlySet THEN cc.hdrsOnly ELSE @]]

\* The configuration cpAction builds from the source's, or its error.
cpConfig(cc, src) ==
    LET r1 == cpMode(cc, src)
        r2 == IF r1.err # "" THEN r1 ELSE cpPolicies(cc, r1.cfg)
        r3 == IF r2.err # "" THEN r2 ELSE cpPush(cc, r2.cfg)
    IN  IF r3.err # "" THEN r3 ELSE cpLimits(cc, r3.cfg)

cpAction ==
    /\ cmd = "copy"
    /\ pc = "parse"
    /\ \E loadOk \in BOOLEAN, ok \in BOOLEAN :
          LET r == cpConfig(c, live)
          IN  IF ~loadOk
              THEN Fatal("FatalLoadConsumer") /\ UNCHANGED <<c, ncfg, submitted>>
              ELSE /\ ncfg' = r.cfg
                   /\ IF r.err \in FatalErrors
                      THEN Fatal(r.err) /\ UNCHANGED <<c, submitted>>
                      ELSE IF r.err # ""
                      THEN pc' = "done" /\ result' = r.err /\ UNCHANGED <<c, submitted>>
                      ELSE /\ submitted' = <<r.cfg>>
                           /\ IF ~ok THEN Fatal("FatalCreate") /\ c' = c
                              ELSE /\ pc' = "done" /\ result' = "ok"
                                   /\ c' = IF r.cfg.Durable = "" THEN c
                                           ELSE [c EXCEPT !.consumer = r.cfg.Durable]
    /\ UNCHANGED <<cmd, live, given, nflags, answer, typed, written, msgVars, netVars, lsVars>>

-----------------------------------------------------------------------------
(* getNextMsgDirect, nextAction, subAction *)

\* jsm.ParseJSMsgMetadata succeeds on a reply subject of the $JS.ACK form.
ParseJSMsgMetadataOk(m) == m.Reply = AckReply

\* cons.IsPullMode()
IsPullMode(cfg) == cfg.DeliverSubject = ""

\* nextAction's loop with the bound `i <= c.pullCount`: one iteration too many.
ReturnFromFetchOffByOne ==
    IF cmd = "next" /\ i + 1 <= c.pullCount
    THEN pc' = "gn.subscribe" /\ i' = i + 1 /\ result' = result
    ELSE pc' = "done" /\ i' = i /\ result' = "ok"

\* getNextMsgDirect returns nil to nextAction (next iteration or return) or
\* to subAction (return).
ReturnFromFetch ==
    IF cmd = "next" /\ i + 1 < c.pullCount
    THEN pc' = "gn.subscribe" /\ i' = i + 1 /\ result' = result
    ELSE pc' = "done" /\ i' = i /\ result' = "ok"

nextAction ==
    /\ cmd = "next"
    /\ pc = "parse"
    /\ IF 0 < c.pullCount
       THEN pc' = "gn.subscribe" /\ result' = result
       ELSE pc' = "done" /\ result' = "ok"
    /\ UNCHANGED <<cmd, live, flagVars, editVars, msgVars, netVars, lsVars>>

subAction ==
    /\ cmd = "sub"
    /\ pc = "parse"
    /\ \E loadOk \in BOOLEAN :
          IF ~loadOk THEN Fatal("FatalLoadConsumer") /\ c' = c
          ELSE /\ c' = IF live.AckPolicy = "none" THEN [c EXCEPT !.ack = FALSE] ELSE c
               /\ pc' = IF IsPullMode(live) THEN "gn.subscribe" ELSE "push.subscribe"
               /\ result' = result
    /\ UNCHANGED <<cmd, live, given, nflags, editVars, msgVars, netVars, lsVars>>

\* sub, err := c.nc.SubscribeSync(c.nc.NewRespInbox()); sub.AutoUnsubscribe(1)
getNextSubscribe ==
    /\ pc = "gn.subscribe"
    /\ \E ok \in BOOLEAN :
          IF ok THEN pc' = "gn.request" /\ nSubs' = nSubs + 1 /\ result' = result
          ELSE Fatal("FatalSubscribe") /\ nSubs' = nSubs
    /\ msg' = NoMsg /\ sent' = <<>> /\ shown' = "none" /\ path' = {}
    /\ UNCHANGED <<cmd, live, flagVars, editVars, i, nReqs, nHandled, lsVars>>

\* err = c.mgr.NextMsgRequest(stream, consumer, sub.Subject, req)
getNextRequest ==
    /\ pc = "gn.request"
    /\ \E ok \in BOOLEAN :
          IF ok THEN pc' = "gn.flags" /\ nReqs' = nReqs + 1 /\ result' = result
          ELSE Fatal("FatalRequest") /\ nReqs' = nReqs
    /\ UNCHANGED <<cmd, live, flagVars, editVars, msgVars, i, nSubs, nHandled, lsVars>>

\* c.ack when --term leaves the default acknowledgement in place.
ackAfterTermKeepsDefault(cc) == cc.ack

\* c.ack after `if c.term { if !c.ackSetByUser { c.ack = false } ... }`
ackAfterTerm(cc) == IF cc.term /\ ~cc.ackSetByUser THEN FALSE ELSE cc.ack

getNextFlags ==
    /\ pc = "gn.flags"
    /\ c' = [c EXCEPT !.ack = ackAfterTerm(c)]
    /\ IF c.term /\ ackAfterTerm(c)
       THEN Fatal("FatalConflict")
       ELSE pc' = "gn.receive" /\ result' = result
    /\ UNCHANGED <<cmd, live, given, nflags, editVars, msgVars, netVars, lsVars>>

\* fatalIfNotPull: "" when it returns, else the fatal error
fatalIfNotPull(loadOk, cfg) ==
    IF ~loadOk THEN "FatalLoadConsumer"
    ELSE IF ~IsPullMode(cfg) THEN "FatalNotPull"
    ELSE ""

\* sub.NextMsg: a message, or NoMsg for the timeout.
getNextReceive ==
    /\ pc = "gn.receive"
    /\ \E m \in Msgs \cup {NoMsg}, loadOk \in BOOLEAN :
          /\ msg' = m
          /\ IF m.none
             THEN Fatal(IF fatalIfNotPull(loadOk, live) # ""
                        THEN fatalIfNotPull(loadOk, live) ELSE "FatalNoMessage")
             ELSE IF m.Status = "503" /\ fatalIfNotPull(loadOk, live) # ""
                  THEN Fatal(fatalIfNotPull(loadOk, live))
             ELSE pc' = "gn.display" /\ result' = result
    /\ UNCHANGED <<cmd, live, flagVars, editVars, sent, shown, path, netVars, lsVars>>

\* What getNextMsgDirect prints for m: the metadata line, the raw
\* subject/reply line when the metadata does not decode, or only the data.
pullShown(cc, m) ==
    IF cc.raw THEN "data"
    ELSE IF ParseJSMsgMetadataOk(m) THEN "meta" ELSE "raw"

getNextDisplay ==
    /\ pc = "gn.display"
    /\ shown' = pullShown(c, msg)
    /\ path' = path \cup (IF c.raw THEN {"display"} ELSE {"decode", "display"})
    /\ pc' = "gn.term"
    /\ UNCHANGED <<cmd, live, result, flagVars, editVars, msg, sent, netVars, lsVars>>

\* msg.Term(): nats.ErrMsgNoReply without a reply subject, else +TERM on it.
getNextTerm ==
    /\ pc = "gn.term"
    /\ IF ~c.term
       THEN pc' = "gn.ack" /\ result' = result /\ sent' = sent /\ path' = path
       ELSE /\ path' = path \cup {"term"}
            /\ IF msg.Reply = ""
               THEN Fatal("FatalTerm") /\ sent' = sent
               ELSE /\ sent' = Append(sent, [subj |-> msg.Reply, data |-> "+TERM"])
                    /\ pc' = "gn.ack" /\ result' = result
    /\ UNCHANGED <<cmd, live, flagVars, editVars, msg, shown, netVars, lsVars>>

\* msg.Respond(nil) after the optional random sleep, then return nil.
getNextAck ==
    /\ pc = "gn.ack"
    /\ IF ~c.ack
       THEN ReturnFromFetch /\ sent' = sent /\ path' = path
       ELSE /\ path' = path \cup {"ack"}
            /\ IF msg.Reply = ""
               THEN Fatal("FatalAck") /\ sent' = sent /\ i' = i
               ELSE /\ sent' = Append(sent, [subj |-> msg.Reply, data |-> ""])
                    /\ ReturnFromFetch
    /\ UNCHANGED <<cmd, live, flagVars, editVars, msg, shown, nSubs, nReqs, nHandled, lsVars>>

-----------------------------------------------------------------------------
(* subscribeConsumer and its message handler *)

pushSubscribe ==
    /\ pc = "push.subscribe"
    /\ \E ok \in BOOLEAN :
          IF ok THEN pc' = "push.run" /\ nSubs' = nSubs + 1 /\ result' = result
          ELSE Fatal("FatalPushSubscribe") /\ nSubs' = nSubs
    /\ UNCHANGED <<cmd, live, flagVars, editVars, msgVars, i, nReqs, nHandled, lsVars>>

\* m.Respond(nil): publishes on the reply subject, if there is one.
Respond(m) == IF m.Reply = "" THEN <<>> ELSE <<[subj |-> m.Reply, data |-> ""]>>

isControlFrameWithReply(m) == m.Data = "" /\ m.Status = "100" /\ m.Reply # ""

\* len(m.Data) == 0 && m.Header.Get("Status") == "100"
isControlFrame(m) == m.Data = "" /\ m.Status = "100"

handleControlRespondOnly(m) ==
    [sent |-> Respond(m), shown |-> "none", path |-> {"control"}, fatal |-> ""]

\* The control-frame branch of the handler.
handleControl(m) ==
    [sent |-> IF m.Stalled # "" THEN <<[subj |-> m.Stalled, data |-> ""]>>
              ELSE Respond(m),
     shown |-> "none", path |-> {"control"}, fatal |-> ""]

\* The rest of the handler: decode, display, auto-ack.
handleData(cc, m) ==
    LET decoded == m.Reply # ""
        hasHeader == m.Status # "" \/ m.Stalled # ""
        p0 == IF decoded THEN {"decode"} ELSE {}
    IN  IF decoded /\ ~ParseJSMsgMetadataOk(m)
        THEN [sent |-> <<>>, shown |-> "none", path |-> p0,
              fatal |-> "FatalParseMetadata"]
        ELSE IF ~cc.raw /\ hasHeader /\ m.Data = "" /\ m.Reply # "" /\ m.Status = "100"
        THEN [sent |-> Respond(m), shown |-> "meta", path |-> p0 \cup {"display"},
              fatal |-> ""]
        ELSE [sent |-> IF cc.ack THEN Respond(m) ELSE <<>>,
              shown |-> IF cc.raw THEN "data" ELSE IF decoded THEN "meta" ELSE "raw",
              path |-> p0 \cup {"display"} \cup (IF cc.ack THEN {"ack"} ELSE {}),
              fatal |-> ""]

handlerRun(cc, m) == IF isControlFrame(m) THEN handleControl(m) ELSE handleData(cc, m)

\* One invocation of the handler by the transport.
handler ==
    /\ pc = "push.run"
    /\ nHandled < MaxMsgs
    /\ \E m \in Msgs :
          LET r == handlerRun(c, m)
          IN  /\ msg' = m
              /\ sent' = r.sent
              /\ shown' = r.shown
              /\ path' = r.path
              /\ IF r.fatal # "" THEN Fatal(r.fatal)
                 ELSE pc' = pc /\ result' = result
    /\ nHandled' = nHandled + 1
    /\ UNCHANGED <<cmd, live, flagVars, editVars, i, nSubs, nReqs, lsVars>>

\* <-ctx.Done()
pushDone ==
    /\ pc = "push.run"
    /\ pc' = "done"
    /\ result' = "ok"
    /\ UNCHANGED <<cmd, live, flagVars, editVars, msgVars, netVars, lsVars>>

-----------------------------------------------------------------------------
(* leaderStandDown *)

\* Up to the step-down request; then time.NewTimer(500ms), whose channel
\* delivers one value.
leaderStandDown ==
    /\ cmd = "stepdown"
    /\ pc = "parse"
    /\ \E o \in {"ErrLoad", "ErrState", "ErrNotClustered", "ErrNoLeader", "ErrStepDown", ""} :
          IF o # "" THEN /\ pc' = "done" /\ result' = o
                         /\ UNCHANGED lsVars
          ELSE /\ pc' = "poll" /\ result' = result
               /\ ctr' = 0 /\ ticks' = 1 /\ leaderNow' = "old"
    /\ UNCHANGED <<cmd, live, flagVars, editVars, msgVars, netVars>>

\* One iteration of `for range timer.C`, for the state st the manager returns.
leaderStandDownPoll ==
    /\ cmd = "stepdown"
    /\ pc = "poll"
    /\ ticks > 0
    /\ ticks' = ticks - 1
    /\ IF ctr = 5
       THEN /\ pc' = "done" /\ result' = "ErrNoNewLeader"
            /\ UNCHANGED <<ctr, leaderNow>>
       ELSE /\ ctr' = ctr + 1
            /\ \E st \in {"err", "same", "new"} :
                  IF st = "new"
                  THEN pc' = "done" /\ result' = "ok" /\ leaderNow' = "new"
                  ELSE pc' = pc /\ result' = result /\ leaderNow' = leaderNow
    /\ UNCHANGED <<cmd, live, flagVars, editVars, msgVars, netVars>>

-----------------------------------------------------------------------------
Init ==
    /\ cmd \in Commands
    /\ pc = "parse"
    /\ c = cDefault(cmd)
    /\ given = {}
    /\ nflags = 0
    /\ live \in IF cmd = "add" THEN {PullDurable} ELSE LiveConfigs
    /\ ncfg = ZeroConfig
    /\ answer = ""
    /\ typed = [q \in {} |-> ""]
    /\ submitted = <<>>
    /\ written = <<>>
    /\ result = ""
    /\ i = 0
    /\ nSubs = 0
    /\ nReqs = 0
    /\ nHandled = 0
    /\ msg = NoMsg
    /\ sent = <<>>
    /\ shown = "none"
    /\ path = {}
    /\ ctr = 0
    /\ ticks = 0
    /\ leaderNow = ""

Next ==
    \/ SetFlag
    \/ editAction
    \/ createAction
    \/ cpAction
    \/ nextAction
    \/ subAction
    \/ getNextSubscribe
    \/ getNextRequest
    \/ getNextFlags
    \/ getNextReceive
    \/ getNextDisplay
    \/ getNextTerm
    \/ getNextAck
    \/ pushSubscribe
    \/ handler
    \/ pushDone
    \/ leaderStandDown
    \/ leaderStandDownPoll

Spec == Init /\ [][Next]_vars

-----------------------------------------------------------------------------
(* backoffPolicy taken alone, on every mode, steps, minimum and maximum *)

BackoffModes == {"", "none", "linear", "exponential"}

BackoffInit ==
    /\ cmd = "backoffPolicy"
    /\ pc = "parse"
    /\ \E m \in BackoffModes, st \in 0..MaxSteps, mn \in {0, 60}, mx \in {0, 1200} :
          c = [cDefault("edit") EXCEPT !.backoffMode = m, !.backoffSteps = st,
                                       !.backoffMin = mn, !.backoffMax = mx]
    /\ given = {} /\ nflags = 0
    /\ live = PullDurable /\ ncfg = ZeroConfig
    /\ answer = "" /\ typed = [q \in {} |-> ""]
    /\ submitted = <<>> /\ written = <<>>
    /\ result = ""
    /\ i = 0 /\ nSubs = 0 /\ nReqs = 0 /\ nHandled = 0
    /\ msg = NoMsg /\ sent = <<>> /\ shown = "none" /\ path = {}
    /\ ctr = 0 /\ ticks = 0 /\ leaderNow = ""

\* cfg.BackOff, err = c.backoffPolicy()
backoffPolicyCall ==
    /\ cmd = "backoffPolicy"
    /\ pc = "parse"
    /\ ncfg' = [ncfg EXCEPT !.BackOff = backoffPolicy(c).v]
    /\ result' = IF backoffPolicy(c).err = "" THEN "ok" ELSE backoffPolicy(c).err
    /\ pc' = "done"
    /\ UNCHANGED <<cmd, live, flagVars, answer, typed, submitted, written,
                   msgVars, netVars, lsVars>>

BackoffSpec == BackoffInit /\ [][backoffPolicyCall]_vars

-----------------------------------------------------------------------------
(* Properties of editAction *)

count(s, x) == Cardinality({k \in DOMAIN s : s[k] = x})

\* s and t hold the same subjects the same number of times, in any order.
IsPermutation(s, t) ==
    /\ Len(s) = Len(t)
    /\ \A k \in DOMAIN s : count(s, s[k]) = count(t, s[k])

elements(s) == {s[k] : k \in DOMAIN s}

OtherFieldsEqual(a, b) == \A f \in DOMAIN a \ {"FilterSubjects"} : a[f] = b[f]

\* editAction got as far as comparing the candidate with the live configuration.
EditCompared ==
    /\ cmd = "edit" /\ pc = "done"
    /\ result \in {"NoDifference", "ExitDryRun", "FatalConfirm", "Declined", "ok", "ErrRemote"}

\* C3: editAction hands a configuration to NewConsumerFromDefault only when
\* the candidate differs from the live configuration, --dry-run is off and
\* --force is set or the user answered yes; a non-durable consumer, an empty
\* diff, a dry run, a declined confirmation and every derivation error
\* submit nothing.
C3_SubmitOnlyWhenConfirmed ==
    /\ Len(submitted) <= 1
    /\ (cmd = "edit" /\ submitted # <<>>) =>
          /\ pc = "done"
          /\ submitted[1] = ncfg
          /\ live.Durable # ""
          /\ ~(OtherFieldsEqual(live, ncfg)
               /\ IsPermutation(live.FilterSubjects, ncfg.FilterSubjects))
          /\ ~c.dryRun
          /\ c.force \/ answer = "yes"
          /\ result \in {"ok", "ErrRemote"}
    /\ (cmd = "edit" /\ pc = "done" /\ result \in {"ok", "ErrRemote"}) => submitted # <<>>

C3_Witness ==
    /\ cmd = "edit" /\ pc = "done" /\ submitted # <<>>
    /\ ~c.force /\ answer = "yes" /\ result = "ok"

\* The edit reaches the backoff check: nothing before it ended the command.
EditReachesCheck ==
    /\ live.Durable # ""
    /\ ~(c.samplePct # -1 /\ (c.samplePct > 100 \/ c.samplePct < 0))
    /\ ~(c.backoffMode = "linear"
         /\ (c.backoffSteps = 0 \/ c.backoffMin = 0 \/ c.backoffMax = 0))
    /\ Len(c.filterSubjects) # 1

\* C4 as claimed: an edit that gives --wait a new value on a consumer whose
\* live configuration has a backoff schedule always fails with the
\* incompatible-edit error and submits nothing, whatever else it overrides
\* (stated for the edits that get as far as the check).
C4_WaitOnBackoffAlwaysFails ==
    (/\ cmd = "edit" /\ pc = "done" /\ c.inputFile = ""
     /\ live.BackOff # <<>>
     /\ "ackWait" \in given /\ c.ackWait \notin {-1, live.AckWait}
     /\ EditReachesCheck)
        => (result = "ErrIncompatibleEdit" /\ submitted = <<>>)

\* C4 amended: an edit without --config that gives --wait a value other than
\* the live ack wait, on a consumer with a backoff schedule, and does not
\* remove the schedule with --backoff none, submits nothing; it ends with the
\* incompatible-edit error exactly when it reaches the check, and otherwise
\* with the earlier failure.
C4_ChangedWaitWithBackoffRejected ==
    (/\ cmd = "edit" /\ pc = "done" /\ c.inputFile = ""
     /\ live.BackOff # <<>>
     /\ "ackWait" \in given /\ c.ackWait \notin {-1, live.AckWait}
     /\ c.backoffMode # "none")
        => /\ submitted = <<>>
           /\ result \in {"ErrIncompatibleEdit", "ErrNotDurable", "FatalSample",
                          "ErrBackoff", "Panic"}
           /\ (result = "ErrIncompatibleEdit") <=> EditReachesCheck

C4_Witness ==
    /\ cmd = "edit" /\ pc = "done" /\ c.inputFile = ""
    /\ live.BackOff # <<>> /\ c.ackWait = 40 /\ c.backoffMode = "linear"
    /\ result = "ErrIncompatibleEdit"

\* C5: the diff of editAction compares FilterSubjects without regard to
\* order: a candidate that differs from the live configuration only in the
\* order of its filter subjects is reported as no difference and nothing is
\* submitted; a difference in any other field, or in the set of subjects,
\* is never reported as no difference.
C5_DiffIgnoresSubjectOrder ==
    EditCompared =>
        /\ (OtherFieldsEqual(live, ncfg)
            /\ IsPermutation(live.FilterSubjects, ncfg.FilterSubjects))
              => (result = "NoDifference" /\ submitted = <<>>)
        /\ (~OtherFieldsEqual(live, ncfg)
            \/ elements(live.FilterSubjects) # elements(ncfg.FilterSubjects))
              => result # "NoDifference"

C5_Witness ==
    /\ EditCompared /\ c.inputFile = ""
    /\ ncfg.FilterSubjects = <<"b", "a">> /\ live.FilterSubjects = <<"a", "b">>
    /\ result = "NoDifference"

\* The flags of edit that set one field of the configuration to their value.
EditScalars ==
    {<<"description", "Description">>, <<"maxDeliver", "MaxDeliver">>,
     <<"maxAckPending", "MaxAckPending">>, <<"ackWait", "AckWait">>,
     <<"maxWaiting", "MaxWaiting">>, <<"maxPullBatch", "MaxRequestBatch">>,
     <<"maxPullExpire", "MaxRequestExpires">>, <<"maxPullBytes", "MaxRequestMaxBytes">>,
     <<"delivery", "DeliverSubject">>, <<"hdrsOnly", "HeadersOnly">>,
     <<"replicas", "Replicas">>, <<"metadata", "Metadata">>}

\* The value of a flag that editAction takes for "not given".
IsUnsetValue(f, v) ==
    CASE f = "description" -> v = ""
      [] f = "maxDeliver" -> v = 0
      [] f = "maxAckPending" -> v = -1
      [] f = "ackWait" -> v = -1
      [] f = "maxWaiting" -> v = 0
      [] f \in {"maxPullBatch", "maxPullExpire", "maxPullBytes", "replicas"} -> v <= 0
      [] f = "delivery" -> v = ""
      [] OTHER -> FALSE

\* editAction built a candidate from the live configuration and the flags.
EditDerived ==
    /\ cmd = "edit" /\ pc = "done" /\ c.inputFile = ""
    /\ result \notin {"ErrNotDurable", "FatalSample", "ErrBackoff", "Panic"}

\* C6 as claimed: without --config the candidate is the live configuration
\* with every flag the user wrote applied, zero and sentinel-looking values
\* included, and every other field left as it is.
C6_EveryGivenOverrideApplied ==
    EditDerived =>
        \A p \in EditScalars :
            ncfg[p[2]] = IF p[1] \in given THEN c[p[1]] ELSE live[p[2]]

\* C6 amended: without --config, a field whose flag was not written keeps the
\* live value; a flag written with a value other than the one editAction
\* takes for "not given" is applied; a flag written with that value
\* (description "", max-deliver 0, max-pending -1, wait -1s, max-waiting 0,
\* replicas 0, ...) leaves the live value; the fields no edit flag sets are
\* those of the live configuration.
C6_OverridesAppliedUnlessUnsetValue ==
    EditDerived =>
        /\ \A p \in EditScalars :
              ncfg[p[2]] = IF p[1] \in given /\ ~IsUnsetValue(p[1], c[p[1]])
                           THEN c[p[1]] ELSE live[p[2]]
        /\ \A f \in {"Durable", "DeliverGroup", "AckPolicy"} : ncfg[f] = live[f]
        /\ "samplePct" \notin given => ncfg.SampleFrequency = live.SampleFrequency
        /\ "backoffMode" \notin given => ncfg.BackOff = live.BackOff
        /\ "filterSubjects" \notin given =>
              /\ ncfg.FilterSubject = live.FilterSubject
              /\ ncfg.FilterSubjects = live.FilterSubjects

C6_Witness ==
    /\ EditDerived
    /\ "replicas" \in given /\ c.replicas = 0 /\ ncfg.Replicas = 3
    /\ "maxWaiting" \in given /\ c.maxWaiting = 9 /\ ncfg.MaxWaiting = 9

-----------------------------------------------------------------------------
(* Properties of the pull fetch, the push handler and the step-down loop *)

\* C1: a pull fetch asked to both terminate and acknowledge (--term with an
\* explicit --ack) fails with the conflicting-action error before any
\* network call: no reply subscription was created and no next-message
\* request was published.
C1_ConflictBeforeNetwork ==
    result = "FatalConflict" => (nSubs = 0 /\ nReqs = 0)

\* C2: after a successful step-down request the poll loop of leaderStandDown
\* never waits for ever: until the command has ended, its next step (the
\* next poll, or the time-out error after five polls) can always be taken.
C2_PollLoopNeverWaitsForever ==
    cmd = "stepdown" => (pc = "done" \/ ENABLED Next)

\* The push handler has run for msg.
PushHandled == cmd = "sub" /\ ~IsPullMode(live) /\ nHandled > 0

\* C7: in the push handler a message with an empty body, status 100 and no
\* stalled marker is never displayed and never reaches the metadata decode
\* or the auto-ack; with a reply subject exactly one empty message is sent
\* to it, without one nothing is sent; the session goes on.
C7_HeartbeatFrame ==
    (PushHandled /\ msg.Data = "" /\ msg.Status = "100" /\ msg.Stalled = "")
        => /\ shown = "none"
           /\ path \cap {"decode", "display", "ack"} = {}
           /\ sent = IF msg.Reply # "" THEN <<[subj |-> msg.Reply, data |-> ""]>>
                     ELSE <<>>
           /\ pc # "exit"

C7_Witness ==
    /\ PushHandled /\ msg.Data = "" /\ msg.Status = "100" /\ msg.Stalled = ""
    /\ msg.Reply = "" /\ sent = <<>> /\ c.ack /\ ~c.raw

\* C8: a control frame (empty body, status 100) with a stalled marker is
\* answered by exactly one empty message on the subject the marker names,
\* and nothing is sent to the frame's own reply subject, with or without one.
C8_StalledFrame ==
    (PushHandled /\ msg.Data = "" /\ msg.Status = "100" /\ msg.Stalled # "")
        => /\ sent = <<[subj |-> msg.Stalled, data |-> ""]>>
           /\ shown = "none"
           /\ \A k \in DOMAIN sent : sent[k].subj # msg.Reply

C8_Witness ==
    /\ PushHandled /\ msg.Data = "" /\ msg.Status = "100" /\ msg.Stalled # ""
    /\ msg.Reply # "" /\ c.ack /\ Len(sent) = 1

\* The pull fetch has received msg (NoMsg: the wait timed out).
PullReceived ==
    /\ cmd \in {"next", "sub"}
    /\ pc \in {"gn.display", "gn.term", "gn.ack", "done", "exit"}
    /\ nReqs > 0
    /\ result \notin {"FatalSubscribe", "FatalRequest", "FatalConflict"}

\* C9: in a pull fetch a time-out and a reply with status 503 both mean the
\* pending work is exhausted: the fetch ends there, with the
\* not-a-pull-consumer error when the consumer is not in pull mode; a 503
\* reply is never displayed, acknowledged or terminated.
C9_Status503IsExhaustion ==
    (PullReceived /\ (msg.none \/ msg.Status = "503"))
        => /\ shown = "none" /\ sent = <<>> /\ path = {}
           /\ pc \in {"done", "exit"} =>
                 result \in {"FatalNotPull", "FatalLoadConsumer", "FatalNoMessage"}
           /\ ~IsPullMode(live) =>
                 (pc = "exit" /\ result \in {"FatalNotPull", "FatalLoadConsumer"})

\* C10: a metadata decode failure on an application message never ends the
\* session: the pull fetch and the push handler still display the message
\* in raw form and go on.
C10_DecodeFailureTolerated ==
    /\ (PushHandled /\ ~(msg.Data = "" /\ msg.Status = "100")
        /\ msg.Reply \notin {"", AckReply})
          => (pc # "exit" /\ (~c.raw => shown = "raw"))
    /\ (PullReceived /\ ~msg.none /\ ~ParseJSMsgMetadataOk(msg) /\ "display" \in path)
          => (result # "FatalParseMetadata" /\ (~c.raw => shown = "raw"))

-----------------------------------------------------------------------------
(* Properties of the pull batch loop *)

\* C11: the batch loop of `next --count N` is sequential.  Every request is
\* published on a subscription made for it (one subscription per request, the
\* next one only once the previous request has been published), a request is
\* only published once every earlier iteration has returned (i counts them),
\* so at most one request is outstanding; at most N requests are published;
\* and once an iteration has failed (every failure of getNextMsgDirect is a
\* fatal exit) nothing more happens, in particular no request.
C11_BatchLoopSequential ==
    cmd = "next" =>
        /\ nReqs <= nSubs /\ nSubs <= nReqs + 1
        /\ nReqs <= i + 1
        /\ nReqs <= c.pullCount
        /\ (pc = "gn.request" => nSubs = nReqs + 1)
        /\ (pc \in {"gn.flags", "gn.receive", "gn.display", "gn.term", "gn.ack"}
                => nReqs = i + 1 /\ nSubs = nReqs)
        /\ (pc = "exit" => ~ENABLED Next)

\* A batch of two whose first iteration failed after its request, and one
\* whose second request has been published.
C11_Witness ==
    /\ cmd = "next" /\ c.pullCount = 2
    /\ \/ pc = "exit" /\ nReqs = 1 /\ result = "FatalNoMessage"
       \/ pc = "gn.receive" /\ nReqs = 2

\* C12: in a pull fetch at most one of the terminate signal and the
\* acknowledgement is sent for a received message, whatever --term, --ack and
\* --no-ack say; and with --term and neither --ack nor --no-ack the fetch does
\* not fail on the conflict, sends no acknowledgement and, once past the
\* terminate step, has sent exactly the terminate signal.
C12_TermExcludesAck ==
    cmd = "next" =>
        /\ Len(sent) <= 1
        /\ ~({"term", "ack"} \subseteq path)
        /\ (c.term /\ "ack" \notin given =>
                /\ result # "FatalConflict"
                /\ "ack" \notin path
                /\ (pc = "gn.ack" \/ (pc = "done" /\ c.pullCount > 0) =>
                        sent = << [subj |-> msg.Reply, data |-> "+TERM"] >>))

\* --term without --ack: the message was terminated and the fetch returned.
C12_Witness ==
    /\ cmd = "next" /\ c.term /\ "ack" \notin given
    /\ pc = "done" /\ result = "ok" /\ ~msg.none
    /\ sent = << [subj |-> msg.Reply, data |-> "+TERM"] >>

-----------------------------------------------------------------------------
(* Properties of prepareConfig, createAction and cpAction *)

\* create has run and prepareConfig returned a configuration without error.
CreateDerived ==
    /\ cmd = "add" /\ pc \in {"done", "exit"}
    /\ result \in {"ok", "FatalCreate", "Valid", "Written", "ErrWriteFile",
                   "FatalValidation"}

\* The invariants of a consumer configuration that C13 lists.
ConfigInvariants(cfg) ==
    /\ cfg.FilterSubject = "" \/ cfg.FilterSubjects = <<>>
    /\ cfg.DeliverSubject = "" => cfg.Heartbeat = 0 /\ ~cfg.FlowControl
    /\ cfg.AckPolicy = "none" => cfg.MaxDeliver = -1
    /\ cfg.SampleFrequency \in {""} \cup {ToString(n) : n \in 0..100}

\* C13: create with --defaults, no --config and no other flag (the consumer
\* name may be given) issues no prompt, whether it derives a configuration
\* or fails, and a configuration it derives satisfies the invariants.
C13_DefaultsNeverPrompt ==
    /\ cmd = "add" /\ pc \in {"done", "exit"}
    /\ c.acceptDefaults /\ given \subseteq {"acceptDefaults", "consumer"}
    => /\ DOMAIN typed = {}
       /\ CreateDerived => ConfigInvariants(ncfg)

\* C14: with no --ack, the ack policy create derives by default (--defaults,
\* or Enter at the ack policy prompt) is a function of the delivery mode of
\* the derived configuration: none with a delivery target, explicit without.
C14_AckDefaultByMode ==
    /\ CreateDerived /\ c.inputFile = "" /\ "ackPolicy" \notin given
    /\ c.acceptDefaults \/ ("ack" \in DOMAIN typed /\ typed["ack"] = "")
    => ncfg.AckPolicy = IF ncfg.DeliverSubject # "" THEN "none" ELSE "explicit"

\* C15: create and copy never submit a configuration with an empty delivery
\* target and ack policy none.
C15_NoPullAckNoneSubmitted ==
    cmd \in {"add", "copy"} =>
        \A k \in DOMAIN submitted :
            ~(submitted[k].DeliverSubject = "" /\ submitted[k].AckPolicy = "none")

\* C16: a configuration submitted by create, copy or edit has at most one of
\* FilterSubject and FilterSubjects populated.
C16_OneFilterField ==
    cmd \in {"add", "copy", "edit"} =>
        \A k \in DOMAIN submitted :
            submitted[k].FilterSubject = "" \/ submitted[k].FilterSubjects = <<>>

\* C17: a configuration submitted by create or copy with a delivery target
\* has zero pull limits, and one without has no heartbeat and no flow control.
C17_ModeSplit ==
    cmd \in {"add", "copy"} =>
        \A k \in DOMAIN submitted :
            LET n == submitted[k]
            IN  IF n.DeliverSubject # ""
                THEN /\ n.MaxWaiting = 0 /\ n.MaxRequestBatch = 0
                     /\ n.MaxRequestExpires = 0 /\ n.MaxRequestMaxBytes = 0
                ELSE n.Heartbeat = 0 /\ ~n.FlowControl

\* C18: a configuration submitted by create, copy or edit with ack policy none
\* has MaxDeliver -1.
C18_AckNoneUnlimited ==
    cmd \in {"add", "copy", "edit"} =>
        \A k \in DOMAIN submitted :
            submitted[k].AckPolicy = "none" => submitted[k].MaxDeliver = -1

\* A step of create, without --config, that derives a configuration with a
\* non-empty backoff schedule.
CreateWithBackoff ==
    /\ cmd = "add" /\ pc = "parse" /\ c.inputFile = ""
    /\ CreateDerived' /\ Len(ncfg'.BackOff) > 0

EffectiveMaxDeliver ==
    IF "maxDeliver" \in given THEN c.maxDeliver
    ELSE IF c.acceptDefaults THEN -1
    ELSE typed'["maxDeliver"]

-----------------------------------------------------------------------------
(* Properties of backoffPolicy *)

\* backoffPolicy has been applied to the mode, steps, minimum and maximum in c.
BackoffApplied == cmd = "backoffPolicy" /\ pc = "done"

BackoffZeroProperty == c.backoffSteps = 0 \/ c.backoffMin = 0 \/ c.backoffMax = 0

-----------------------------------------------------------------------------
(* Properties of the sample percentage, the filter wildcard and the names *)

\* create, copy or edit has run to its end.
ConfigCommandEnded == cmd \in {"add", "copy", "edit"} /\ pc \in {"done", "exit"}

\* C21: for an explicitly given --sample in create, copy and edit (without
\* --config): a value below 0 or above 100 makes the command fail and nothing
\* is submitted; 0 leaves the sample frequency empty; a value in 1..100 is
\* stored as that number in every configuration that is submitted.
C21_SampleRange ==
    /\ ConfigCommandEnded /\ "samplePct" \in given /\ c.inputFile = ""
    => /\ (c.samplePct < 0 \/ c.samplePct > 100) =>
             /\ submitted = <<>>
             /\ result \notin {"ok", "Valid", "Written"}
       /\ \A k \in DOMAIN submitted :
             submitted[k].SampleFrequency =
                IF c.samplePct = 0 THEN "" ELSE ToString(c.samplePct)

\* C22: in create (without --config), when no filter subject is given (no
\* --filter, and a blank answer if the filter prompt is shown) and the
\* deliver policy is last-per-subject, the derived FilterSubject is ">".
C22_WildcardForLastPerSubject ==
    /\ CreateDerived /\ c.inputFile = "" /\ "filterSubjects" \notin given
    /\ "filter" \in DOMAIN typed => typed["filter"] = ""
    /\ ncfg.DeliverPolicy = "last_per_subject"
    => ncfg.FilterSubject = ">"

\* C23: no configuration prepareConfig returns has a durable name with '.',
\* '*' or '>' in it, with or without --config.
C23_NoReservedCharInName ==
    CreateDerived => ~MatchReserved(ncfg.Durable)

\* C26: an edit never aborts on an out-of-range access, and with exactly one
\* --filter value (without --config) that gets past the sample and backoff
\* checks its candidate has that value as FilterSubject.
C26_OneFilterEdit ==
    /\ cmd = "edit" /\ pc = "done"
    => /\ result # "Panic"
       /\ (c.inputFile = "" /\ Len(c.filterSubjects) = 1
           /\ result \notin {"ErrNotDurable", "FatalSample", "ErrBackoff"})
          => ncfg.FilterSubject = c.filterSubjects[1]

-----------------------------------------------------------------------------
(* Properties of create with a configuration file *)

\* createAction derives a configuration from the file --config names.
CreateFromFile ==
    /\ cmd = "add" /\ pc = "parse" /\ c.inputFile # ""
    /\ CreateDerived'

\* The fields of a configuration other than durable name and delivery target.
OtherFields == DOMAIN ZeroConfig \ {"Durable", "DeliverSubject"}

\* C24: create with --config derives the file's configuration with the
\* durable name replaced by the name of the command line whenever one is
\* given and the delivery target replaced by --target whenever it is given;
\* the other fields are the file's and no prompt is issued.
C24_FileMergesNameAndTarget ==
    [][CreateFromFile =>
         LET f == loadConfigFile(c.inputFile).cfg
         IN  /\ c.consumer # "" => ncfg'.Durable = c.consumer
             /\ c.delivery # "" => ncfg'.DeliverSubject = c.delivery
             /\ \A k \in OtherFields : ncfg'[k] = f[k]
             /\ DOMAIN typed' = {}]_vars

\* C24, amended: the name of the command line replaces the file's durable
\* name only when the file has one, and --target replaces the file's delivery
\* target only when the file has one; a field the file leaves empty stays
\* empty.  The other fields are the file's and no prompt is issued.
C24_FileMergesIntoSetFields ==
    [][CreateFromFile =>
         LET f == loadConfigFile(c.inputFile).cfg
         IN  /\ ncfg'.Durable =
                  IF f.Durable # "" /\ c.consumer # "" THEN c.consumer ELSE f.Durable
             /\ ncfg'.DeliverSubject =
                  IF f.DeliverSubject # "" /\ c.delivery # "" THEN c.delivery
                  ELSE f.DeliverSubject
             /\ \A k \in OtherFields : ncfg'[k] = f[k]
             /\ DOMAIN typed' = {}]_vars

C24_Witness ==
    /\ CreateDerived /\ c.inputFile = "other.json"
    /\ {"consumer", "delivery"} \subseteq given /\ c.delivery = "push.new"
    /\ ncfg.Durable = "NEW" /\ ncfg.DeliverSubject = ""
    /\ ncfg.Description = "file" /\ DOMAIN typed = {}

-----------------------------------------------------------------------------
(* Delivery group of a copy *)

\* C27: the configuration a copy submits has a non-empty delivery group only
\* when both --deliver-group and --target were given, and then it is the
\* given group; otherwise it is empty, whatever group the source has.
C27_CopyGroupOnlyFromFlags ==
    (cmd = "copy" /\ submitted # <<>>) =>
       \A k \in DOMAIN submitted :
          submitted[k].DeliverGroup =
             IF {"deliveryGroup", "delivery"} \subseteq given THEN c.deliveryGroup ELSE ""

C27_Witness ==
    /\ cmd = "copy" /\ result = "ok" /\ Len(submitted) = 1
    /\ live.DeliverGroup = "grp" /\ live.DeliverSubject = "push.old"
    /\ given \cap {"deliveryGroup", "delivery"} = {}
    /\ submitted[1].DeliverSubject = live.DeliverSubject
    /\ submitted[1].DeliverGroup = ""

====
